---------------------------- MODULE Spec2Model ----------------------------
(***************************************************************************)
(* A model of app.py, the APBD analyzer: the numeric-text normalizer       *)
(* (parse_number), the header resolver (find_column_by_keywords), the      *)
(* account classifier (classify_account), the ratio engine (safe_pct,      *)
(* compute_all_ratios, interpret_ratios) and the "Upload & Analyze" pass   *)
(* that strings them together.                                             *)
(*                                                                         *)
(* Text is a sequence of one-character strings, so that stripping,         *)
(* filtering, replacing and substring search are computed character by     *)
(* character as the Python code computes them.  A float is a sign and the  *)
(* decimal digits of its value, or an infinity.                            *)
(***************************************************************************)
EXTENDS Integers, Sequences, FiniteSets, TLC

VARIABLES
    x, value, again, ppc,
    cols, keywords, found, fpc,
    name, kategori, cpc,
    totals_in, prev_in, r, rpc,
    pc, raw, akun_col, anggaran_col, realisasi_col, tahun_col,
    numeric_candidates, df, totals, totals_prev, ratios, interpretation

parseVars == <<x, value, again, ppc>>
findVars == <<cols, keywords, found, fpc>>
classVars == <<name, kategori, cpc>>
ratioVars == <<totals_in, prev_in, r, rpc>>
runVars == <<pc, raw, akun_col, anggaran_col, realisasi_col, tahun_col,
             numeric_candidates, df, totals, totals_prev, ratios, interpretation>>
vars == <<parseVars, findVars, classVars, ratioVars, runVars>>

\* No category assigned yet.
None == "None"

(***************************************************************************)
(* Characters and text.                                                    *)
(***************************************************************************)
Digit == {"0", "1", "2", "3", "4", "5", "6", "7", "8", "9"}

\* str.lower, on the ASCII letters.
UpperCase ==
    <<"A", "B", "C", "D", "E", "F", "G", "H", "I", "J", "K", "L", "M", "N", "O", "P", "Q", "R", "S", "T", "U", "V", "W", "X", "Y", "Z">>
LowerCase ==
    <<"a", "b", "c", "d", "e", "f", "g", "h", "i", "j", "k", "l", "m", "n", "o", "p", "q", "r", "s", "t", "u", "v", "w", "x", "y", "z">>
LowerChar(c) ==
    IF \E i \in 1..Len(UpperCase) : UpperCase[i] = c
    THEN LowerCase[CHOOSE i \in 1..Len(UpperCase) : UpperCase[i] = c]
    ELSE c

lower(s) == [i \in 1..Len(s) |-> LowerChar(s[i])]

\* re.sub(r"[^...]", "", s): the characters of s that are in keep, in order.
Filter(s, keep) == SelectSeq(s, LAMBDA c : c \in keep)

\* s.replace(old, ""), for a character old.
remove(s, old) == SelectSeq(s, LAMBDA c : c # old)

\* s.replace(old, new), for characters old and new.
replace(s, old, new) == [i \in 1..Len(s) |-> IF s[i] = old THEN new ELSE s[i]]

\* str.strip(): whitespace removed at both ends.
strip(s) ==
    LET ink == {i \in 1..Len(s) : s[i] # " "}
    IN  IF ink = {} THEN <<>>
        ELSE SubSeq(s, CHOOSE i \in ink : \A j \in ink : i <= j,
                       CHOOSE i \in ink : \A j \in ink : i >= j)

\* "c in s" for a character c.
HasChar(s, c) == \E i \in 1..Len(s) : s[i] = c

\* "k in s" for texts: k occurs in s as a contiguous run (the empty k always does).
Contains(s, k) ==
    \E i \in 0..(Len(s) - Len(k)) : \A j \in 1..Len(k) : s[i + j] = k[j]

\* s.startswith(k)
startswith(s, k) == Len(k) <= Len(s) /\ \A j \in 1..Len(k) : s[j] = k[j]

\* The pattern with a bound of two digits: r"\.\d{1,2}$".
TrailingDotTwoDigits(s) ==
    \E n \in 1..2 :
        /\ Len(s) >= n + 1
        /\ s[Len(s) - n] = "."
        /\ \A j \in (Len(s) - n + 1)..Len(s) : s[j] \in Digit

\* re.search(r"\.\d{1,3}$", s): a '.' followed by one to three digits that end s.
TrailingDotDigits(s) ==
    \E n \in 1..3 :
        /\ Len(s) >= n + 1
        /\ s[Len(s) - n] = "."
        /\ \A j \in (Len(s) - n + 1)..Len(s) : s[j] \in Digit

(***************************************************************************)
(* Floats.  A finite float is its sign and the decimal digits of its       *)
(* value: ip the integer digits without leading zeros, fp the fractional   *)
(* digits without trailing zeros.  Zero is kept unsigned: Python's -0.0    *)
(* equals 0.0.  The conversion from text is exact on the digits; a double  *)
(* holds 15 significant decimal digits exactly (DBL_DIG), so two floats of *)
(* at most that many digits are equal exactly when their digits are.       *)
(***************************************************************************)
Fin(neg, ip, fp) == [kind |-> "fin", neg |-> neg, ip |-> ip, fp |-> fp]
Inf(neg) == [kind |-> "inf", neg |-> neg, ip |-> <<>>, fp |-> <<>>]
\* An exception that leaves parse_number.
Raised == [kind |-> "raise", neg |-> FALSE, ip |-> <<>>, fp |-> <<>>]
Zero == Fin(FALSE, <<>>, <<>>)

DBL_DIG == 15

\* The least magnitude that a conversion to double rounds beyond DBL_MAX:
\* 2^1024 - 2^970, in decimal (309 digits).
OverflowThreshold ==
    <<"1", "7", "9", "7", "6", "9", "3", "1", "3", "4", "8", "6", "2", "3", "1", "5", "8", "0", "7", "9", "3", "7", "2", "8", "9">> \o
    <<"7", "1", "4", "0", "5", "3", "0", "3", "4", "1", "5", "0", "7", "9", "9", "3", "4", "1", "3", "2", "7", "1", "0", "0", "3">> \o
    <<"7", "8", "2", "6", "9", "3", "6", "1", "7", "3", "7", "7", "8", "9", "8", "0", "4", "4", "4", "9", "6", "8", "2", "9", "2">> \o
    <<"7", "6", "4", "7", "5", "0", "9", "4", "6", "6", "4", "9", "0", "1", "7", "9", "7", "7", "5", "8", "7", "2", "0", "7", "0">> \o
    <<"9", "6", "3", "3", "0", "2", "8", "6", "4", "1", "6", "6", "9", "2", "8", "8", "7", "9", "1", "0", "9", "4", "6", "5", "5">> \o
    <<"5", "5", "4", "7", "8", "5", "1", "9", "4", "0", "4", "0", "2", "6", "3", "0", "6", "5", "7", "4", "8", "8", "6", "7", "1">> \o
    <<"5", "0", "5", "8", "2", "0", "6", "8", "1", "9", "0", "8", "9", "0", "2", "0", "0", "0", "7", "0", "8", "3", "8", "3", "6">> \o
    <<"7", "6", "2", "7", "3", "8", "5", "4", "8", "4", "5", "8", "1", "7", "7", "1", "1", "5", "3", "1", "7", "6", "4", "4", "7">> \o
    <<"5", "7", "3", "0", "2", "7", "0", "0", "6", "9", "8", "5", "5", "5", "7", "1", "3", "6", "6", "9", "5", "9", "6", "2", "2">> \o
    <<"8", "4", "2", "9", "1", "4", "8", "1", "9", "8", "6", "0", "8", "3", "4", "9", "3", "6", "4", "7", "5", "2", "9", "2", "7">> \o
    <<"1", "9", "0", "7", "4", "1", "6", "8", "4", "4", "4", "3", "6", "5", "5", "1", "0", "7", "0", "4", "3", "4", "2", "7", "1">> \o
    <<"1", "5", "5", "9", "6", "9", "9", "5", "0", "8", "0", "9", "3", "0", "4", "2", "8", "8", "0", "1", "7", "7", "9", "0", "4">> \o
    <<"1", "7", "4", "4", "9", "7", "7", "9", "2">>

DigitVal(c) ==
    CASE c = "0" -> 0 [] c = "1" -> 1 [] c = "2" -> 2 [] c = "3" -> 3
      [] c = "4" -> 4 [] c = "5" -> 5 [] c = "6" -> 6 [] c = "7" -> 7
      [] c = "8" -> 8 [] c = "9" -> 9

DigitChar(d) == <<"0", "1", "2", "3", "4", "5", "6", "7", "8", "9">>[d + 1]

StripLeadingZeros(s) ==
    LET nz == {i \in 1..Len(s) : s[i] # "0"}
    IN  IF nz = {} THEN <<>>
        ELSE SubSeq(s, CHOOSE i \in nz : \A j \in nz : i <= j, Len(s))

StripTrailingZeros(s) ==
    LET nz == {i \in 1..Len(s) : s[i] # "0"}
    IN  IF nz = {} THEN <<>>
        ELSE SubSeq(s, 1, CHOOSE i \in nz : \A j \in nz : i >= j)

\* a >= b for digit strings of equal length.
DigitsGeq(a, b) ==
    \/ a = b
    \/ \E i \in 1..Len(a) :
           /\ \A j \in 1..(i - 1) : a[j] = b[j]
           /\ DigitVal(a[i]) > DigitVal(b[i])

\* The integer digits ip (no leading zeros) are beyond the range of a double.
Overflows(ip) ==
    \/ Len(ip) > Len(OverflowThreshold)
    \/ Len(ip) = Len(OverflowThreshold) /\ DigitsGeq(ip, OverflowThreshold)

\* The double of the decimal with sign neg, integer digits i and fraction digits f.
MakeFloat(neg, i, f) ==
    LET ip == StripLeadingZeros(i)
        fp == StripTrailingZeros(f)
    IN  IF Overflows(ip) THEN Inf(neg)
        ELSE IF ip = <<>> /\ fp = <<>> THEN Zero
        ELSE Fin(neg, ip, fp)

\* What float(s) accepts, for s made of digits, '.' and '-': an optional leading
\* '-', then digits with at most one '.', and at least one digit.
FloatBody(s) == IF s # <<>> /\ Head(s) = "-" THEN Tail(s) ELSE s

ValidFloat(s) ==
    LET b == FloatBody(s)
    IN  /\ \A i \in 1..Len(b) : b[i] \in Digit \cup {"."}
        /\ Cardinality({i \in 1..Len(b) : b[i] = "."}) <= 1
        /\ \E i \in 1..Len(b) : b[i] \in Digit

\* float(s) for a text s that ValidFloat accepts.
float(s) ==
    LET b == FloatBody(s)
        dots == {i \in 1..Len(b) : b[i] = "."}
        dot == IF dots = {} THEN Len(b) + 1 ELSE CHOOSE i \in dots : TRUE
    IN  MakeFloat(s # <<>> /\ Head(s) = "-",
                  SubSeq(b, 1, dot - 1), SubSeq(b, dot + 1, Len(b)))

\* The significant digits of a finite float and the place of its decimal point
\* (value = 0.d1d2... * 10^decpt), as Python's repr computes them.
SigDigits(v) == StripTrailingZeros(StripLeadingZeros(v.ip \o v.fp))
DecPt(v) ==
    IF v.ip # <<>> THEN Len(v.ip) ELSE Len(StripLeadingZeros(v.fp)) - Len(v.fp)

RECURSIVE NatDigits(_)
NatDigits(n) ==
    IF n < 10 THEN <<DigitChar(n)>> ELSE NatDigits(n \div 10) \o <<DigitChar(n % 10)>>

\* str(v) of a float: repr's shortest digits, in exponent form when the decimal
\* point lies more than 16 places right or more than 3 places left of the digits.
str(v) ==
    IF v.kind = "inf" THEN (IF v.neg THEN <<"-", "i", "n", "f">> ELSE <<"i", "n", "f">>)
    ELSE IF v = Zero THEN <<"0", ".", "0">>
    ELSE
        LET d == SigDigits(v)
            decpt == DecPt(v)
            sign == IF v.neg THEN <<"-">> ELSE <<>>
            e == decpt - 1
            ed == NatDigits(IF e < 0 THEN -e ELSE e)
        IN  IF decpt > 16 \/ decpt <= -4
            THEN sign \o <<Head(d)>>
                      \o (IF Len(d) > 1 THEN <<".">> \o Tail(d) ELSE <<>>)
                      \o <<"e", IF e < 0 THEN "-" ELSE "+">>
                      \o (IF Len(ed) < 2 THEN <<"0">> ELSE <<>>) \o ed
            ELSE sign \o (IF v.ip = <<>> THEN <<"0">> ELSE v.ip) \o <<".">>
                      \o (IF v.fp = <<>> THEN <<"0">> ELSE v.fp)

(***************************************************************************)
(* parse_number (app.py 15-54).  An input is None/NaN, a number (a float,  *)
(* or an int too large for a double), or text.                             *)
(***************************************************************************)
NoneInput == [kind |-> "none", v |-> Zero, s |-> <<>>]
FloatInput(v) == [kind |-> "float", v |-> v, s |-> <<>>]
\* An int given by its decimal digits.
IntInput(digits) == [kind |-> "int", v |-> Zero, s |-> digits]
TextInput(s) == [kind |-> "text", v |-> Zero, s |-> s]

\* Line 32: the parentheses of "(...)" become a leading '-'.
Parenthesised(s) ==
    IF startswith(s, <<"(">>) /\ s[Len(s)] = ")"
    THEN <<"-">> \o SubSeq(s, 2, Len(s) - 1)
    ELSE s

\* Lines 37-46: the separator heuristic.
Separators(s) ==
    IF HasChar(s, ".") /\ HasChar(s, ",")
    THEN replace(remove(s, "."), ",", ".")
    ELSE replace(IF HasChar(s, ".") /\ ~TrailingDotDigits(s)
                 THEN remove(s, ".") ELSE s,
                 ",", ".")

\* Lines 27-48: the text as it reaches float(): stripped, the parentheses turned
\* into a sign, the currency markers and letters removed, the separators settled.
CleanText(t) ==
    Filter(Separators(Filter(Parenthesised(strip(t)), Digit \cup {".", ",", "-"})),
           Digit \cup {".", "-"})

\* Lines 27-54: the text rules.
parse_text(t) ==
    IF strip(t) = <<>> THEN Zero
    ELSE IF CleanText(t) \in {<<>>, <<"-">>, <<".">>} THEN Zero
    ELSE IF ValidFloat(CleanText(t)) THEN float(CleanText(t))
    ELSE Zero

parse_number(a) ==
    IF a.kind = "none" THEN Zero
    ELSE IF a.kind = "float" THEN a.v
    ELSE IF a.kind = "int"
         THEN (IF Overflows(StripLeadingZeros(a.s)) THEN Raised
               ELSE MakeFloat(FALSE, a.s, <<>>))
    ELSE parse_text(a.s)

(***************************************************************************)
(* find_column_by_keywords (app.py 59-65).  Column names are texts; the    *)
(* absent result (Python's None) is NoCol, which is no column name.        *)
(***************************************************************************)
NoCol == <<"None">>

\* Line 63: k.lower() in c.lower()
NameHasKeyword(c, k) == Contains(lower(c), lower(k))

\* Lines 62-64: the first column, in column order, whose name contains k.
RECURSIVE FirstColumnWith(_, _)
FirstColumnWith(cs, k) ==
    IF cs = <<>> THEN NoCol
    ELSE IF NameHasKeyword(Head(cs), k) THEN Head(cs)
    ELSE FirstColumnWith(Tail(cs), k)

\* The loop nest the other way round: columns outside, keywords inside.
RECURSIVE ColumnMajorSearch(_, _)
ColumnMajorSearch(cs, ks) ==
    IF cs = <<>> THEN NoCol
    ELSE IF \E i \in 1..Len(ks) : NameHasKeyword(Head(cs), ks[i]) THEN Head(cs)
    ELSE ColumnMajorSearch(Tail(cs), ks)

\* Lines 61-65: keywords in priority order, each tried on every column.
RECURSIVE find_column_by_keywords(_, _)
find_column_by_keywords(cs, ks) ==
    IF ks = <<>> THEN NoCol
    ELSE IF FirstColumnWith(cs, Head(ks)) # NoCol THEN FirstColumnWith(cs, Head(ks))
    ELSE find_column_by_keywords(cs, Tail(ks))

(***************************************************************************)
(* classify_account (app.py 70-98).                                        *)
(***************************************************************************)
CategoryTag ==
    <<"PAD", "TRANSFER", "PENDAPATAN", "BELANJA_OPERASI", "BELANJA_MODAL",
      "BELANJA_LAINNYA", "BELANJA_TIDAK_TERDUGA", "PEMBIAYAAN", "LAINNYA">>

\* The test of the i-th rule on the lower-cased label n (lines 75, 78, 81, 84,
\* 87, 90, 93, 96).
RuleTest(i, n) ==
    CASE i = 1 -> \/ Contains(n, <<"p", "a", "d">>) \/ Contains(n, <<"p", "a", "j", "a", "k">>)
                  \/ Contains(n, <<"r", "e", "t", "r", "i", "b", "u", "s", "i">>)
                  \/ Contains(n, <<"h", "a", "s", "i", "l", " ", "p", "e", "n", "g", "e", "l", "o", "l", "a", "a", "n">>)
                  \/ Contains(n, <<"l", "a", "i", "n", "-", "l", "a", "i", "n", " ", "p", "a", "d">>)
      [] i = 2 -> \/ Contains(n, <<"t", "k", "d", "d">>) \/ Contains(n, <<"t", "r", "a", "n", "s", "f", "e", "r">>)
                  \/ Contains(n, <<"d", "a", "u">>) \/ Contains(n, <<"d", "a", "k">>)
                  \/ Contains(n, <<"d", "b", "h">>)
      [] i = 3 -> \/ startswith(strip(n), <<"p", "e", "n", "d", "a", "p", "a", "t", "a", "n">>)
                  \/ Contains(n, <<"p", "e", "n", "d", "a", "p", "a", "t", "a", "n", " ", "d", "a", "e", "r", "a", "h">>)
      [] i = 4 -> \/ Contains(n, <<"b", "e", "l", "a", "n", "j", "a", " ", "p", "e", "g", "a", "w", "a", "i">>)
                  \/ Contains(n, <<"b", "e", "l", "a", "n", "j", "a", " ", "b", "a", "r", "a", "n", "g">>)
                  \/ Contains(n, <<"b", "e", "l", "a", "n", "j", "a", " ", "j", "a", "s", "a">>)
                  \/ Contains(n, <<"b", "e", "l", "a", "n", "j", "a", " ", "b", "a", "r", "a", "n", "g", " ", "d", "a", "n", " ", "j", "a", "s", "a">>)
      [] i = 5 -> \/ Contains(n, <<"b", "e", "l", "a", "n", "j", "a", " ", "m", "o", "d", "a", "l">>)
                  \/ (Contains(n, <<"m", "o", "d", "a", "l">>) /\ Contains(n, <<"b", "e", "l", "a", "n", "j", "a">>))
      [] i = 6 -> \/ Contains(n, <<"h", "i", "b", "a", "h">>) \/ Contains(n, <<"b", "a", "n", "t", "u">>)
                  \/ Contains(n, <<"s", "u", "b", "s", "i", "d", "i">>) \/ Contains(n, <<"b", "a", "g", "i", " ", "h", "a", "s", "i", "l">>)
      [] i = 7 -> Contains(n, <<"t", "i", "d", "a", "k", " ", "t", "e", "r", "d", "u", "g", "a">>)
      [] i = 8 -> \/ Contains(n, <<"p", "e", "m", "b", "i", "a", "y", "a", "a", "n">>)
                  \/ Contains(n, <<"p", "e", "n", "e", "r", "i", "m", "a", "a", "n", " ", "p", "e", "m", "b", "i", "a", "y", "a", "a", "n">>)
                  \/ Contains(n, <<"s", "i", "s", "a", " ", "l", "e", "b", "i", "h">>)

\* The chain with the capital-spending rule tried before the operating one and
\* the transfer rule before the PAD one.
ClassifyReordered(nm) ==
    LET n == lower(nm)
    IN  IF RuleTest(2, n) THEN "TRANSFER"
        ELSE IF RuleTest(1, n) THEN "PAD"
        ELSE IF RuleTest(3, n) THEN "PENDAPATAN"
        ELSE IF RuleTest(5, n) THEN "BELANJA_MODAL"
        ELSE IF RuleTest(4, n) THEN "BELANJA_OPERASI"
        ELSE IF RuleTest(6, n) THEN "BELANJA_LAINNYA"
        ELSE IF RuleTest(7, n) THEN "BELANJA_TIDAK_TERDUGA"
        ELSE IF RuleTest(8, n) THEN "PEMBIAYAAN"
        ELSE "LAINNYA"

classify_account(nm) ==
    LET n == lower(nm)
    IN  IF RuleTest(1, n) THEN "PAD"
        ELSE IF RuleTest(2, n) THEN "TRANSFER"
        ELSE IF RuleTest(3, n) THEN "PENDAPATAN"
        ELSE IF RuleTest(4, n) THEN "BELANJA_OPERASI"
        ELSE IF RuleTest(5, n) THEN "BELANJA_MODAL"
        ELSE IF RuleTest(6, n) THEN "BELANJA_LAINNYA"
        ELSE IF RuleTest(7, n) THEN "BELANJA_TIDAK_TERDUGA"
        ELSE IF RuleTest(8, n) THEN "PEMBIAYAAN"
        ELSE "LAINNYA"

(***************************************************************************)
(* The ratio engine (app.py 103-197).  A dict is a function from its keys; *)
(* an amount is an integer; a ratio value is None or the fraction n/d,     *)
(* kept unreduced and compared by cross-multiplication.                    *)
(***************************************************************************)
NoneDict == [none |-> TRUE, d |-> [k \in {} |-> 0]]
Dict(f) == [none |-> FALSE, d |-> f]
\* A dict's truth value: None and {} are false.
Truthy(p) == ~p.none /\ DOMAIN p.d # {}
\* dict.get(k, default)
get(p, k, default) == IF k \in DOMAIN p.d THEN p.d[k] ELSE default

NoneRatio == [none |-> TRUE, n |-> 0, d |-> 1]
Pct(n, d) == [none |-> FALSE, n |-> n, d |-> d]
\* Two ratio values are the same value.
SameRatio(a, b) ==
    IF a.none \/ b.none THEN a.none = b.none ELSE a.n * b.d = b.n * a.d
\* a < t and a > t for a number a and an integer t.
Below(a, t) == IF a.d > 0 THEN a.n < t * a.d ELSE a.n > t * a.d
Above(a, t) == IF a.d > 0 THEN a.n > t * a.d ELSE a.n < t * a.d

\* Lines 103-109.
safe_pct(numer, denom) ==
    IF denom = 0 THEN Pct(0, 1) ELSE Pct(numer * 100, denom)

RatioNames ==
    { "Rasio Kemandirian (%)", "Rasio Ketergantungan Transfer (%)",
      "Rasio Efektivitas PAD (%)", "Rasio Efisiensi Belanja (%)",
      "Rasio Belanja Operasi (%)", "Rasio Belanja Modal (%)",
      "Rasio Belanja Pegawai terhadap Belanja (%)",
      "Rasio Belanja Barang/Jasa terhadap Belanja (%)",
      "Pertumbuhan Pendapatan (%)", "Pertumbuhan Belanja (%)",
      "Pertumbuhan PAD (%)", "SILPA (Receipts)" }

GrowthNames ==
    {"Pertumbuhan Pendapatan (%)", "Pertumbuhan Belanja (%)", "Pertumbuhan PAD (%)"}

\* Lines 111-143.
compute_all_ratios(prev, tot) ==
    LET PAD == get(tot, "PAD", 0)
        TRANSFER == get(tot, "TRANSFER", 0)
        PENDAPATAN == get(tot, "PENDAPATAN", 0)
        TOTAL_BELANJA == get(tot, "TOTAL_BELANJA", 0)
        BEL_OP == get(tot, "BELANJA_OPERASI", 0)
        BEL_MOD == get(tot, "BELANJA_MODAL", 0)
        ANG_BELANJA == get(tot, "ANGGARAN_BELANJA", 0)
    IN  [k \in RatioNames |->
          CASE k = "Rasio Kemandirian (%)" -> safe_pct(PAD, TRANSFER)
            [] k = "Rasio Ketergantungan Transfer (%)" -> safe_pct(TRANSFER, PENDAPATAN)
            [] k = "Rasio Efektivitas PAD (%)" ->
                 safe_pct(get(tot, "Realisasi_PAD", 0), get(tot, "Anggaran_PAD", 0))
            [] k = "Rasio Efisiensi Belanja (%)" ->
                 safe_pct(get(tot, "Realisasi_Belanja", 0), ANG_BELANJA)
            [] k = "Rasio Belanja Operasi (%)" -> safe_pct(BEL_OP, TOTAL_BELANJA)
            [] k = "Rasio Belanja Modal (%)" -> safe_pct(BEL_MOD, TOTAL_BELANJA)
            [] k = "Rasio Belanja Pegawai terhadap Belanja (%)" ->
                 safe_pct(get(tot, "Belanja_Pegawai", 0), TOTAL_BELANJA)
            [] k = "Rasio Belanja Barang/Jasa terhadap Belanja (%)" ->
                 safe_pct(get(tot, "Belanja_BarangJasa", 0), TOTAL_BELANJA)
            [] k = "Pertumbuhan Pendapatan (%)" ->
                 IF Truthy(prev)
                 THEN safe_pct(get(tot, "PENDAPATAN", 0) - get(prev, "PENDAPATAN", 0),
                               get(prev, "PENDAPATAN", 1))
                 ELSE NoneRatio
            [] k = "Pertumbuhan Belanja (%)" ->
                 IF Truthy(prev)
                 THEN safe_pct(TOTAL_BELANJA - get(prev, "TOTAL_BELANJA", 0),
                               get(prev, "TOTAL_BELANJA", 1))
                 ELSE NoneRatio
            [] k = "Pertumbuhan PAD (%)" ->
                 IF Truthy(prev)
                 THEN safe_pct(get(tot, "PAD", 0) - get(prev, "PAD", 0),
                               get(prev, "PAD", 1))
                 ELSE NoneRatio
            [] k = "SILPA (Receipts)" -> Pct(get(tot, "SILPA", 0), 1)]

\* Lines 148-197: the sentences, each named by its subject and band.
interpret_ratios(rs) ==
    LET k0 == rs["Rasio Kemandirian (%)"]
        k == IF k0.none THEN Pct(0, 1) ELSE k0
        ef == rs["Rasio Efektivitas PAD (%)"]
        efi == rs["Rasio Efisiensi Belanja (%)"]
        pg == rs["Pertumbuhan Pendapatan (%)"]
        silpa == rs["SILPA (Receipts)"]
    IN  <<IF Below(k, 10) THEN "kemandirian sangat rendah"
          ELSE IF Below(k, 20) THEN "kemandirian rendah"
          ELSE IF Below(k, 50) THEN "kemandirian sedang"
          ELSE "kemandirian tinggi">>
        \o (IF ef.none THEN <<>>
            ELSE IF Below(ef, 80) THEN <<"efektivitas rendah">>
            ELSE IF ~Above(ef, 100) THEN <<"efektivitas baik">>
            ELSE <<"efektivitas tinggi">>)
        \o (IF efi.none THEN <<>>
            ELSE IF Above(efi, 100) THEN <<"efisiensi melebihi anggaran">>
            ELSE IF ~Below(efi, 90) THEN <<"efisiensi cukup baik">>
            ELSE <<"efisiensi rendah">>)
        \o <<"komposisi belanja">>
        \o (IF pg.none THEN <<>> ELSE <<"pertumbuhan pendapatan">>)
        \o (IF ~silpa.none /\ silpa.n # 0 THEN <<"silpa">> ELSE <<>>)

(***************************************************************************)
(* The "Upload & Analyze" pass (app.py 229-358).  A sheet is its column    *)
(* names and its rows of cell texts (read with dtype=str).                 *)
(***************************************************************************)
NoSheet == [cols |-> <<>>, rows |-> <<>>]

ColumnIndex(sheet, c) == CHOOSE i \in 1..Len(sheet.cols) : sheet.cols[i] = c
\* raw[c]: the cells of column c, top to bottom.
Column(sheet, c) ==
    [i \in 1..Len(sheet.rows) |-> sheet.rows[i][ColumnIndex(sheet, c)]]

\* The integer value of a float without fraction digits (the amounts of the
\* sheets the model reads are whole).
RECURSIVE DigitsValue(_)
DigitsValue(ds) ==
    IF ds = <<>> THEN 0
    ELSE 10 * DigitsValue(SubSeq(ds, 1, Len(ds) - 1)) + DigitVal(ds[Len(ds)])

Amount(v) == IF v.neg THEN -DigitsValue(v.ip) ELSE DigitsValue(v.ip)

\* Lines 246-250: the keyword lists of the roles.
AkunKeywords == <<<<"a", "k", "u", "n">>, <<"r", "e", "k", "e", "n", "i", "n", "g">>, <<"u", "r", "a", "i", "a", "n">>, <<"k", "e", "t", "e", "r", "a", "n", "g", "a", "n">>, <<"n", "a", "m", "a", " ", "a", "k", "u", "n">>>>
AnggaranKeywords ==
    <<<<"a", "n", "g", "g", "a", "r", "a", "n">>, <<"p", "a", "g", "u">>, <<"n", "i", "l", "a", "i", " ", "a", "n", "g", "g", "a", "r", "a", "n">>, <<"n", "i", "l", "a", "i">>, <<"b", "u", "d", "g", "e", "t">>>>
RealisasiKeywords ==
    <<<<"r", "e", "a", "l", "i", "s", "a", "s", "i">>, <<"r", "e", "a", "l", "i", "s", "a", "s", "i", " ", "(", "r", "p", ")">>, <<"r", "e", "a", "l", "i", "s", "a", "s", "i", " ", "a", "n", "g", "g", "a", "r", "a", "n">>, <<"r", "e", "a", "l", "i", "s", "a", "s", "i">>>>
TahunKeywords == <<<<"t", "a", "h", "u", "n">>, <<"p", "e", "r", "i", "o", "d", "e">>>>

\* The stop taken when either role is unresolved.
MissingEither(ang, real) == ang = NoCol \/ real = NoCol

\* Line 254: neither amount role was resolved by its keywords.
MissingBoth(ang, real) == ang = NoCol /\ real = NoCol

\* Line 262: every sampled cell keeps some character of a number.
NumericLike(cells) ==
    /\ cells # <<>>
    /\ \A i \in 1..Len(cells) :
           (i <= 10) =>
               strip(Filter(cells[i], Digit \cup {".", ",", "-", "(", ")"})) # <<>>

\* Lines 259-264: the numeric-like columns, in column order.
NumericCandidates(sheet) ==
    SelectSeq(sheet.cols, LAMBDA c : NumericLike(Column(sheet, c)))

\* Lines 265-266.
FallbackAnggaran(ang, cands) ==
    IF ang = NoCol /\ Len(cands) >= 1 THEN cands[1] ELSE ang

\* Lines 267-268, on the budget column already settled.
FallbackRealisasi(real, ang, cands) ==
    IF real = NoCol /\ Len(cands) >= 2
    THEN (IF cands[2] # ang THEN cands[2] ELSE cands[1])
    ELSE real

\* Lines 271-290: one row of the clean frame.  A role without a column is 0.0;
\* the period is the cell's text, or None without a period column.  The actual
\* column is read after "Anggaran" was overwritten with the parsed budget.
CleanRow(sheet, i, akun, ang, real, tahun) ==
    LET cell(c) == sheet.rows[i][ColumnIndex(sheet, c)]
        anggaran == IF ang # NoCol THEN parse_number(TextInput(cell(ang))) ELSE Zero
        realText == IF real = <<"A", "n", "g", "g", "a", "r", "a", "n">> /\ ang # NoCol
                    THEN str(anggaran) ELSE cell(real)
        realisasi == IF real # NoCol THEN parse_number(TextInput(realText)) ELSE Zero
    IN  [ Akun |-> cell(akun),
          Anggaran |-> Amount(anggaran),
          Realisasi |-> Amount(realisasi),
          Tahun |-> IF tahun # NoCol THEN cell(tahun) ELSE NoCol,
          Kategori |-> classify_account(cell(akun)) ]

\* Line 272 renames the account column to "Akun"; a role resolved to that same
\* column is then looked up under a name the frame no longer has (KeyError).
RenamedAway(akun, c) == c # NoCol /\ c = akun /\ akun # <<"A", "k", "u", "n">>

\* Kategori.str.contains("BELANJA")
IsBelanja(k) ==
    k \in {"BELANJA_OPERASI", "BELANJA_MODAL", "BELANJA_LAINNYA",
           "BELANJA_TIDAK_TERDUGA"}
IsRevenue(k) == k \in {"PAD", "TRANSFER", "PENDAPATAN"}

RECURSIVE SumRealisasi(_)
SumRealisasi(rows) ==
    IF rows = <<>> THEN 0 ELSE Head(rows).Realisasi + SumRealisasi(Tail(rows))

RECURSIVE SumAnggaran(_)
SumAnggaran(rows) ==
    IF rows = <<>> THEN 0 ELSE Head(rows).Anggaran + SumAnggaran(Tail(rows))

OfCategory(frame, k) == SelectSeq(frame, LAMBDA row : row.Kategori = k)
Belanja(frame) == SelectSeq(frame, LAMBDA row : IsBelanja(row.Kategori))
Revenue(frame) == SelectSeq(frame, LAMBDA row : IsRevenue(row.Kategori))
OfYear(frame, y) == SelectSeq(frame, LAMBDA row : row.Tahun = y)

\* Lines 296-316: the totals of the whole frame.
ComputeTotals(frame) ==
    Dict([k \in { "PAD", "TRANSFER", "PENDAPATAN", "BELANJA_OPERASI",
                  "BELANJA_MODAL", "TOTAL_BELANJA", "ANGGARAN_BELANJA",
                  "Realisasi_Belanja", "Anggaran_PAD", "Realisasi_PAD" } |->
            CASE k = "TOTAL_BELANJA" -> SumRealisasi(Belanja(frame))
              [] k = "ANGGARAN_BELANJA" -> SumAnggaran(Belanja(frame))
              [] k = "Realisasi_Belanja" -> SumRealisasi(Belanja(frame))
              [] k = "Anggaran_PAD" -> SumAnggaran(OfCategory(frame, "PAD"))
              [] k = "Realisasi_PAD" -> SumRealisasi(OfCategory(frame, "PAD"))
              [] OTHER -> SumRealisasi(OfCategory(frame, k))])

\* sorted(years) compares texts character by character, by code point.
CharCode(c) ==
    CASE c \in Digit -> 48 + DigitVal(c)
      [] c = "n" -> 110
      [] c = "a" -> 97
      [] OTHER -> 0

TextLess(a, b) ==
    \/ \E i \in 1..Len(a) :
           /\ i <= Len(b)
           /\ \A j \in 1..(i - 1) : a[j] = b[j]
           /\ CharCode(a[i]) < CharCode(b[i])
    \/ Len(a) < Len(b) /\ \A j \in 1..Len(a) : a[j] = b[j]

\* Line 322: the distinct period tags of the frame.
Years(frame) == {frame[i].Tahun : i \in 1..Len(frame)} \ {NoCol}
\* years_sorted[-1] and years_sorted[-2]
CurrYear(ys) == CHOOSE y \in ys : \A z \in ys \ {y} : TextLess(z, y)
PrevYear(ys) == CurrYear(ys \ {CurrYear(ys)})

\* Lines 319-336: the previous period's totals, or None.
ComputeTotalsPrev(frame) ==
    IF Cardinality(Years(frame)) >= 2
    THEN LET df_prev == OfYear(frame, PrevYear(Years(frame)))
         IN  Dict([k \in {"PENDAPATAN", "TOTAL_BELANJA", "PAD"} |->
                     CASE k = "PENDAPATAN" -> SumRealisasi(Revenue(df_prev))
                       [] k = "TOTAL_BELANJA" -> SumRealisasi(Belanja(df_prev))
                       [] k = "PAD" -> SumRealisasi(OfCategory(df_prev, "PAD"))])
    ELSE NoneDict

(***************************************************************************)
(* Specifications.  Each component is run on inputs drawn from bounded     *)
(* sets; the variables of the other components stay idle.                  *)
(***************************************************************************)
ParseIdle == x = NoneInput /\ value = Zero /\ again = Zero /\ ppc = "idle"
FindIdle == cols = <<>> /\ keywords = <<>> /\ found = NoCol /\ fpc = "idle"
ClassIdle == name = <<>> /\ kategori = None /\ cpc = "idle"
RatioIdle ==
    totals_in = NoneDict /\ prev_in = NoneDict /\ r = <<>> /\ rpc = "idle"
RunIdle ==
    /\ pc = "idle" /\ raw = NoSheet
    /\ akun_col = NoCol /\ anggaran_col = NoCol /\ realisasi_col = NoCol
    /\ tahun_col = NoCol /\ numeric_candidates = <<>> /\ df = <<>>
    /\ totals = NoneDict /\ totals_prev = NoneDict /\ ratios = <<>>
    /\ interpretation = <<>>

\* ---- parse_number ----
MaxTextLen == 5
Alphabet == {"0", "1", ".", ",", "-", "(", ")", " ", "R"}
ShortTexts == UNION {[1..n -> Alphabet] : n \in 0..MaxTextLen}

Repeat(c, n) == [i \in 1..n |-> c]

\* Texts of the documented scenarios, decimals with a long fraction or a value
\* printed in exponent form, and digit runs around the range of a double.
ScenarioTexts ==
    { <<"3", ".", "1", "0", "2", ".", "7", "4", "5", ".", "4", "2", "8", ".", "9", "5", "8">>, <<"R", "p", " ", "1", ".", "2", "3", "4", ".", "5", "6", "7", ",", "8", "9">>, <<"(", "1", ".", "0", "0", "0", ".", "0", "0", "0", ")">>,
      <<"0", ",", "1", "2", "3", "4", "5">>, <<"0", ",", "0", "0", "0", "0", "1">>, <<"1", "0", "0", "0", "0", "0", "0", "0", "0", "0", "0", "0", "0", "0", "0", "0", "0">>,
      Repeat("9", Len(OverflowThreshold)),
      Repeat("9", Len(OverflowThreshold) - 1),
      <<"1">> \o Repeat("0", Len(OverflowThreshold) - 1),
      OverflowThreshold }

ParseInputs ==
    {TextInput(s) : s \in ScenarioTexts \cup ShortTexts}
        \cup {NoneInput}
        \cup {FloatInput(v) : v \in {Zero, Fin(TRUE, <<"1">>, <<"5">>),
                                     Inf(FALSE), Inf(TRUE)}}
        \cup {IntInput(d) : d \in {<<"7">>, OverflowThreshold}}

ParseInit ==
    /\ x \in ParseInputs /\ value = Zero /\ again = Zero /\ ppc = "input"
    /\ FindIdle /\ ClassIdle /\ RatioIdle /\ RunIdle

\* value = parse_number(x)
ParseNumber ==
    /\ ppc = "input"
    /\ value' = parse_number(x)
    /\ ppc' = "parsed"
    /\ UNCHANGED <<x, again, findVars, classVars, ratioVars, runVars>>

\* again = parse_number(str(value)), for a value whose repr holds its digits.
Reparse ==
    /\ ppc = "parsed"
    /\ value.kind # "raise"
    /\ value.kind = "fin" => Len(SigDigits(value)) <= DBL_DIG
    /\ again' = parse_number(TextInput(str(value)))
    /\ ppc' = "reparsed"
    /\ UNCHANGED <<x, value, findVars, classVars, ratioVars, runVars>>

ParseNext == ParseNumber \/ Reparse
SpecParse == ParseInit /\ [][ParseNext]_vars

\* ---- find_column_by_keywords ----
MaxCols == 3
MaxKeys == 2

ColumnNames ==
    { <<"A", "k", "u", "n">>, <<"A", "n", "g", "g", "a", "r", "a", "n">>, <<"R", "e", "a", "l", "i", "s", "a", "s", "i">>, <<"N", "i", "l", "a", "i", " ", "A", "n", "g", "g", "a", "r", "a", "n">>, <<"P", "a", "g", "u">>,
      <<"T", "a", "h", "u", "n">>, <<"J", "u", "m", "l", "a", "h">> }
KeywordPool == {<<"a", "n", "g", "g", "a", "r", "a", "n">>, <<"n", "i", "l", "a", "i">>, <<"p", "a", "g", "u">>, <<"r", "e", "a", "l", "i", "s", "a", "s", "i">>, <<"a">>}

\* Sequences of distinct column names (a sheet's header names are distinct).
Headers ==
    UNION {{s \in [1..n -> ColumnNames] : \A i, j \in 1..n : i # j => s[i] # s[j]}
           : n \in 0..MaxCols}
KeywordLists ==
    {AkunKeywords, AnggaranKeywords, RealisasiKeywords, TahunKeywords}
        \cup UNION {[1..n -> KeywordPool] : n \in 0..MaxKeys}

FindInit ==
    /\ cols \in Headers /\ keywords \in KeywordLists
    /\ found = NoCol /\ fpc = "input"
    /\ ParseIdle /\ ClassIdle /\ RatioIdle /\ RunIdle

FindColumn ==
    /\ fpc = "input"
    /\ found' = find_column_by_keywords(cols, keywords)
    /\ fpc' = "found"
    /\ UNCHANGED <<cols, keywords, parseVars, classVars, ratioVars, runVars>>

SpecFind == FindInit /\ [][FindColumn]_vars

\* ---- classify_account ----
MaxWords == 2

Words ==
    { <<"p", "a", "d">>, <<"p", "a", "j", "a", "k">>, <<"r", "e", "t", "r", "i", "b", "u", "s", "i">>, <<"h", "a", "s", "i", "l", " ", "p", "e", "n", "g", "e", "l", "o", "l", "a", "a", "n">>, <<"t", "k", "d", "d">>,
      <<"t", "r", "a", "n", "s", "f", "e", "r">>, <<"d", "a", "u">>, <<"d", "a", "k">>, <<"d", "b", "h">>, <<"p", "e", "n", "d", "a", "p", "a", "t", "a", "n">>,
      <<"p", "e", "n", "d", "a", "p", "a", "t", "a", "n", " ", "d", "a", "e", "r", "a", "h">>, <<"b", "e", "l", "a", "n", "j", "a", " ", "p", "e", "g", "a", "w", "a", "i">>, <<"b", "e", "l", "a", "n", "j", "a", " ", "b", "a", "r", "a", "n", "g">>,
      <<"b", "e", "l", "a", "n", "j", "a", " ", "j", "a", "s", "a">>, <<"b", "e", "l", "a", "n", "j", "a">>, <<"m", "o", "d", "a", "l">>, <<"b", "e", "l", "a", "n", "j", "a", " ", "m", "o", "d", "a", "l">>, <<"h", "i", "b", "a", "h">>,
      <<"b", "a", "n", "t", "u", "a", "n">>, <<"s", "u", "b", "s", "i", "d", "i">>, <<"b", "a", "g", "i", " ", "h", "a", "s", "i", "l">>, <<"t", "i", "d", "a", "k", " ", "t", "e", "r", "d", "u", "g", "a">>,
      <<"p", "e", "m", "b", "i", "a", "y", "a", "a", "n">>, <<"s", "i", "s", "a", " ", "l", "e", "b", "i", "h">>, <<" ">>, <<"T", "a", "n", "a", "h">>, <<"l", "a", "i", "n", "n", "y", "a">> }

RECURSIVE Concat(_)
Concat(ws) == IF ws = <<>> THEN <<>> ELSE Head(ws) \o Concat(Tail(ws))

ScenarioLabels ==
    { <<"B", "e", "l", "a", "n", "j", "a", " ", "M", "o", "d", "a", "l", " ", "T", "a", "n", "a", "h">>, <<"P", "a", "j", "a", "k", " ", "D", "a", "e", "r", "a", "h">>, <<"D", "a", "n", "a", " ", "A", "l", "o", "k", "a", "s", "i", " ", "U", "m", "u", "m", " ", "(", "D", "A", "U", ")">>,
      <<"B", "e", "l", "a", "n", "j", "a", " ", "T", "i", "d", "a", "k", " ", "T", "e", "r", "d", "u", "g", "a">> }

Labels ==
    ScenarioLabels
        \cup UNION {{Concat(ws) : ws \in [1..n -> Words]} : n \in 0..MaxWords}

ClassInit ==
    /\ name \in Labels /\ kategori = None /\ cpc = "input"
    /\ ParseIdle /\ FindIdle /\ RatioIdle /\ RunIdle

Classify ==
    /\ cpc = "input"
    /\ kategori' = classify_account(name)
    /\ cpc' = "classified"
    /\ UNCHANGED <<name, parseVars, findVars, ratioVars, runVars>>

SpecClassify == ClassInit /\ [][Classify]_vars

\* ---- compute_all_ratios ----
MaxTotal == 1

TotalKeys ==
    {"PAD", "TRANSFER", "PENDAPATAN", "TOTAL_BELANJA", "ANGGARAN_BELANJA",
     "Anggaran_PAD"}
PrevKeys == {"PENDAPATAN", "TOTAL_BELANJA", "PAD"}

\* The dicts with some of the keys ks, each amount in 0..MaxTotal.
Dicts(ks) == {Dict(f) : f \in UNION {[D -> 0..MaxTotal] : D \in SUBSET ks}}

RatioInit ==
    /\ totals_in \in Dicts(TotalKeys)
    /\ prev_in \in Dicts(PrevKeys) \cup {NoneDict}
    /\ r = <<>> /\ rpc = "input"
    /\ ParseIdle /\ FindIdle /\ ClassIdle /\ RunIdle

ComputeAllRatios ==
    /\ rpc = "input"
    /\ r' = compute_all_ratios(prev_in, totals_in)
    /\ rpc' = "computed"
    /\ UNCHANGED <<totals_in, prev_in, parseVars, findVars, classVars, runVars>>

SpecRatio == RatioInit /\ [][ComputeAllRatios]_vars

\* ---- the Upload & Analyze pass ----
MaxRows == 2

Layouts ==
    { <<<<"A", "k", "u", "n">>, <<"A", "n", "g", "g", "a", "r", "a", "n">>, <<"R", "e", "a", "l", "i", "s", "a", "s", "i">>, <<"T", "a", "h", "u", "n">>>>,
      <<<<"U", "r", "a", "i", "a", "n">>, <<"P", "a", "g", "u">>, <<"R", "e", "a", "l", "i", "s", "a", "s", "i", " ", "(", "R", "p", ")">>, <<"P", "e", "r", "i", "o", "d", "e">>>>,
      <<<<"A", "k", "u", "n">>, <<"A", "n", "g", "g", "a", "r", "a", "n">>, <<"R", "e", "a", "l", "i", "s", "a", "s", "i">>>>,
      <<<<"A", "k", "u", "n">>, <<"A", "n", "g", "g", "a", "r", "a", "n">>>>,
      <<<<"A", "k", "u", "n">>, <<"R", "e", "a", "l", "i", "s", "a", "s", "i">>, <<"T", "a", "h", "u", "n">>>>,
      <<<<"A", "k", "u", "n">>, <<"A", "n", "g", "g", "a", "r", "a", "n">>, <<"T", "a", "h", "u", "n">>>>,
      <<<<"A", "k", "u", "n">>, <<"J", "u", "m", "l", "a", "h">>, <<"T", "o", "t", "a", "l">>>>,
      <<<<"A", "k", "u", "n">>, <<"C", "a", "t", "a", "t", "a", "n">>>> }

\* What a sheet's author puts under a header.
RowValues ==
    [ label : {<<"P", "A", "D">>, <<"B", "e", "l", "a", "n", "j", "a", " ", "M", "o", "d", "a", "l">>, <<"B", "e", "l", "a", "n", "j", "a", " ", "T", "i", "d", "a", "k", " ", "T", "e", "r", "d", "u", "g", "a">>},
      budget : {<<"1", "0", "0">>, <<"0">>},
      actual : {<<"1", "0", "0">>, <<"5", "0">>},
      period : {<<"2", "0", "2", "3">>, <<"2", "0", "2", "4">>} ]

CellUnder(h, rv) ==
    CASE h \in {<<"A", "k", "u", "n">>, <<"U", "r", "a", "i", "a", "n">>} -> rv.label
      [] h \in {<<"A", "n", "g", "g", "a", "r", "a", "n">>, <<"P", "a", "g", "u">>, <<"J", "u", "m", "l", "a", "h">>} -> rv.budget
      [] h \in {<<"R", "e", "a", "l", "i", "s", "a", "s", "i">>, <<"R", "e", "a", "l", "i", "s", "a", "s", "i", " ", "(", "R", "p", ")">>, <<"T", "o", "t", "a", "l">>} -> rv.actual
      [] h \in {<<"T", "a", "h", "u", "n">>, <<"P", "e", "r", "i", "o", "d", "e">>} -> rv.period
      [] OTHER -> <<"o", "k">>

Sheets ==
    { [cols |-> l,
       rows |-> [i \in 1..Len(rvs) |-> [j \in 1..Len(l) |-> CellUnder(l[j], rvs[i])]]]
      : l \in Layouts, rvs \in UNION {[1..n -> RowValues] : n \in 1..MaxRows} }

Init ==
    /\ pc = "upload" /\ raw = NoSheet
    /\ akun_col = NoCol /\ anggaran_col = NoCol /\ realisasi_col = NoCol
    /\ tahun_col = NoCol /\ numeric_candidates = <<>> /\ df = <<>>
    /\ totals = NoneDict /\ totals_prev = NoneDict /\ ratios = <<>>
    /\ interpretation = <<>>
    /\ ParseIdle /\ FindIdle /\ ClassIdle /\ RatioIdle

idleVars == <<parseVars, findVars, classVars, ratioVars>>

\* Lines 231-234: no file was uploaded.
NoUpload ==
    /\ pc = "upload"
    /\ pc' = "stopped_no_file"
    /\ UNCHANGED <<raw, akun_col, anggaran_col, realisasi_col, tahun_col,
                   numeric_candidates, df, totals, totals_prev, ratios,
                   interpretation, idleVars>>

\* Lines 236-240: the file cannot be read.
ReadFails ==
    /\ pc = "upload"
    /\ pc' = "stopped_unreadable"
    /\ UNCHANGED <<raw, akun_col, anggaran_col, realisasi_col, tahun_col,
                   numeric_candidates, df, totals, totals_prev, ratios,
                   interpretation, idleVars>>

\* Line 237: the first sheet is read, every cell as text.
Upload ==
    /\ pc = "upload"
    /\ raw' \in Sheets
    /\ pc' = "detect"
    /\ UNCHANGED <<akun_col, anggaran_col, realisasi_col, tahun_col,
                   numeric_candidates, df, totals, totals_prev, ratios,
                   interpretation, idleVars>>

\* Lines 246-250.
DetectColumns ==
    /\ pc = "detect"
    /\ akun_col' = IF find_column_by_keywords(raw.cols, AkunKeywords) # NoCol
                   THEN find_column_by_keywords(raw.cols, AkunKeywords)
                   ELSE raw.cols[1]
    /\ anggaran_col' = find_column_by_keywords(raw.cols, AnggaranKeywords)
    /\ realisasi_col' = find_column_by_keywords(raw.cols, RealisasiKeywords)
    /\ tahun_col' = find_column_by_keywords(raw.cols, TahunKeywords)
    /\ pc' = "check"
    /\ UNCHANGED <<raw, numeric_candidates, df, totals, totals_prev, ratios,
                   interpretation, idleVars>>

\* Lines 254-256.
CheckMissing ==
    /\ pc = "check"
    /\ pc' = IF MissingBoth(anggaran_col, realisasi_col)
             THEN "stopped_missing_columns" ELSE "scan"
    /\ UNCHANGED <<raw, akun_col, anggaran_col, realisasi_col, tahun_col,
                   numeric_candidates, df, totals, totals_prev, ratios,
                   interpretation, idleVars>>

\* Lines 259-268.
ScanNumeric ==
    /\ pc = "scan"
    /\ numeric_candidates' = NumericCandidates(raw)
    /\ anggaran_col' = FallbackAnggaran(anggaran_col, NumericCandidates(raw))
    /\ realisasi_col' =
           FallbackRealisasi(realisasi_col,
                             FallbackAnggaran(anggaran_col, NumericCandidates(raw)),
                             NumericCandidates(raw))
    /\ pc' = "clean"
    /\ UNCHANGED <<raw, akun_col, tahun_col, df, totals, totals_prev, ratios,
                   interpretation, idleVars>>

\* Lines 271-290.
BuildClean ==
    /\ pc = "clean"
    /\ IF \/ RenamedAway(akun_col, anggaran_col)
          \/ RenamedAway(akun_col, realisasi_col)
          \/ RenamedAway(akun_col, tahun_col)
       THEN pc' = "crashed" /\ df' = df
       ELSE /\ df' = [i \in 1..Len(raw.rows) |->
                        CleanRow(raw, i, akun_col, anggaran_col, realisasi_col,
                                 tahun_col)]
            /\ pc' = "aggregate"
    /\ UNCHANGED <<raw, akun_col, anggaran_col, realisasi_col, tahun_col,
                   numeric_candidates, totals, totals_prev, ratios,
                   interpretation, idleVars>>

\* Lines 296-336.
Aggregate ==
    /\ pc = "aggregate"
    /\ totals' = ComputeTotals(df)
    /\ totals_prev' = ComputeTotalsPrev(df)
    /\ pc' = "ratios"
    /\ UNCHANGED <<raw, akun_col, anggaran_col, realisasi_col, tahun_col,
                   numeric_candidates, df, ratios, interpretation, idleVars>>

\* Line 339.
ComputeRatios ==
    /\ pc = "ratios"
    /\ ratios' = compute_all_ratios(totals_prev, totals)
    /\ pc' = "interpret"
    /\ UNCHANGED <<raw, akun_col, anggaran_col, realisasi_col, tahun_col,
                   numeric_candidates, df, totals, totals_prev, interpretation,
                   idleVars>>

\* Line 357.
Interpret ==
    /\ pc = "interpret"
    /\ interpretation' = interpret_ratios(ratios)
    /\ pc' = "done"
    /\ UNCHANGED <<raw, akun_col, anggaran_col, realisasi_col, tahun_col,
                   numeric_candidates, df, totals, totals_prev, ratios, idleVars>>

Next ==
    \/ NoUpload \/ ReadFails \/ Upload \/ DetectColumns \/ CheckMissing
    \/ ScanNumeric \/ BuildClean \/ Aggregate \/ ComputeRatios \/ Interpret

Spec == Init /\ [][Next]_vars

(***************************************************************************)
(* The claims.                                                             *)
(***************************************************************************)
Min(S) == CHOOSE m \in S : \A n \in S : m <= n

\* The total a ratio divides by: of the current totals, or of the previous ones
\* for a growth ratio.
DenominatorKey(k) ==
    CASE k = "Rasio Kemandirian (%)" -> "TRANSFER"
      [] k = "Rasio Ketergantungan Transfer (%)" -> "PENDAPATAN"
      [] k = "Rasio Efektivitas PAD (%)" -> "Anggaran_PAD"
      [] k = "Rasio Efisiensi Belanja (%)" -> "ANGGARAN_BELANJA"
      [] k = "Pertumbuhan Pendapatan (%)" -> "PENDAPATAN"
      [] k = "Pertumbuhan Belanja (%)" -> "TOTAL_BELANJA"
      [] k = "Pertumbuhan PAD (%)" -> "PAD"
      [] OTHER -> "TOTAL_BELANJA"

\* C1: once compute_all_ratios has run, every percentage ratio whose denominator
\* total is 0 or absent (for a growth ratio: of the supplied previous totals) is
\* the unavailable value None, which is not the number 0.0.
C1_ZeroDenominatorUnavailable ==
    rpc = "computed" =>
        \A k \in RatioNames \ {"SILPA (Receipts)"} :
            LET from == IF k \in GrowthNames THEN prev_in ELSE totals_in
            IN  (k \in GrowthNames => Truthy(prev_in))
                    /\ get(from, DenominatorKey(k), 0) = 0
                => r[k] = NoneRatio

\* Digit groups joined by '.', with at least two '.' and no empty group.
DotGrouped(s) ==
    /\ s # <<>>
    /\ \A i \in 1..Len(s) : s[i] \in Digit \cup {"."}
    /\ Cardinality({i \in 1..Len(s) : s[i] = "."}) >= 2
    /\ s[1] # "." /\ s[Len(s)] # "."
    /\ \A i \in 1..(Len(s) - 1) : ~(s[i] = "." /\ s[i + 1] = ".")

\* C2: parse_number reads '.' as a thousands separator: the three documented
\* texts give 3102745428958.0, -1000000.0 and 1234567.89, and a text of
\* dot-joined digit groups with two or more '.' gives the number left when every
\* '.' is removed.
C2_DotsAreThousands ==
    (ppc # "input" /\ x.kind = "text") =>
        /\ x.s = <<"3", ".", "1", "0", "2", ".", "7", "4", "5", ".", "4", "2", "8", ".", "9", "5", "8">> => value = Fin(FALSE, <<"3", "1", "0", "2", "7", "4", "5", "4", "2", "8", "9", "5", "8">>, <<>>)
        /\ x.s = <<"(", "1", ".", "0", "0", "0", ".", "0", "0", "0", ")">> => value = Fin(TRUE, <<"1", "0", "0", "0", "0", "0", "0">>, <<>>)
        /\ x.s = <<"R", "p", " ", "1", ".", "2", "3", "4", ".", "5", "6", "7", ",", "8", "9">> => value = Fin(FALSE, <<"1", "2", "3", "4", "5", "6", "7">>, <<"8", "9">>)
        /\ DotGrouped(x.s) => value = float(remove(x.s, "."))

\* A decimal numeral: an optional '-', digits, and optionally a '.' or ',' followed
\* by digits.
IsDecimalText(s) ==
    LET b == FloatBody(s)
        seps == {i \in 1..Len(b) : b[i] \in {".", ","}}
    IN  /\ b # <<>>
        /\ \A i \in 1..Len(b) : b[i] \in Digit \cup {".", ","}
        /\ Cardinality(seps) <= 1
        /\ b[1] \in Digit /\ b[Len(b)] \in Digit

\* C3: for a decimal numeral x, parse_number(str(parse_number(x))) equals
\* parse_number(x).
C3_Idempotent ==
    (ppc = "reparsed" /\ x.kind = "text" /\ IsDecimalText(x.s)) => again = value

\* C3, amended: for a decimal numeral x whose parsed value has at most three
\* fractional digits, at most 16 integer digits and at most 15 significant
\* digits, parse_number(str(parse_number(x))) equals parse_number(x).
C3_IdempotentShortFraction ==
    ( /\ ppc = "reparsed" /\ x.kind = "text" /\ IsDecimalText(x.s)
      /\ value.kind = "fin" /\ Len(value.fp) <= 3 /\ Len(value.ip) <= 16 )
        => again = value

\* A numeral with a decimal comma was parsed to a value with a fraction, printed
\* and parsed again to the same value.
C3_Witness ==
    /\ ppc = "reparsed" /\ x.kind = "text" /\ IsDecimalText(x.s)
    /\ HasChar(x.s, ",")
    /\ value.kind = "fin" /\ value.fp # <<>> /\ Len(value.fp) <= 3
    /\ again = value

\* C4: parse_number returns a finite float for every input, without raising, and
\* 0.0 for text that float() does not accept after the cleaning.
C4_TotalAndFinite ==
    ppc # "input" =>
        /\ value.kind = "fin"
        /\ (x.kind = "text" /\ ~ValidFloat(CleanText(x.s))) => value = Zero

\* The rules, by number, whose test the lower-cased label passes.
Matching(nm) == {i \in 1..8 : RuleTest(i, lower(nm))}

\* C5: classify_account returns the tag of the first rule, in the order PAD,
\* TRANSFER, PENDAPATAN, BELANJA_OPERASI, BELANJA_MODAL, BELANJA_LAINNYA,
\* BELANJA_TIDAK_TERDUGA, PEMBIAYAAN, whose test the label passes, and LAINNYA
\* when it passes none; the documented labels get their documented tags.
C5_FirstMatchingRule ==
    cpc = "classified" =>
        /\ kategori = IF Matching(name) = {} THEN "LAINNYA"
                      ELSE CategoryTag[Min(Matching(name))]
        /\ name = <<"B", "e", "l", "a", "n", "j", "a", " ", "M", "o", "d", "a", "l", " ", "T", "a", "n", "a", "h">> => kategori = "BELANJA_MODAL"
        /\ name = <<"P", "a", "j", "a", "k", " ", "D", "a", "e", "r", "a", "h">> => kategori = "PAD"
        /\ name = <<"D", "a", "n", "a", " ", "A", "l", "o", "k", "a", "s", "i", " ", "U", "m", "u", "m", " ", "(", "D", "A", "U", ")">> => kategori = "TRANSFER"
        /\ (Contains(lower(name), <<"p", "a", "d">>) /\ Contains(lower(name), <<"b", "e", "l", "a", "n", "j", "a", " ", "m", "o", "d", "a", "l">>))
               => kategori = "PAD"

\* A label with both "pad" and "belanja modal" was classified.
C5_Witness ==
    /\ cpc = "classified"
    /\ Contains(lower(name), <<"p", "a", "d">>) /\ Contains(lower(name), <<"b", "e", "l", "a", "n", "j", "a", " ", "m", "o", "d", "a", "l">>)
    /\ Cardinality(Matching(name)) >= 2
    /\ kategori = "PAD"

\* C6: the result of find_column_by_keywords is the first column, in column
\* order, that contains the earliest keyword any column contains, and it is
\* absent exactly when no column contains any keyword.
C6_EarlierKeywordWins ==
    fpc = "found" =>
        LET hit(k, c) == NameHasKeyword(cols[c], keywords[k])
            ks == {k \in 1..Len(keywords) : \E c \in 1..Len(cols) : hit(k, c)}
        IN  IF ks = {} THEN found = NoCol
            ELSE found = cols[Min({c \in 1..Len(cols) : hit(Min(ks), c)})]

\* A column that has only a later keyword stands before the column returned.
C6_Witness ==
    /\ fpc = "found" /\ found # NoCol
    /\ \E c \in 1..Len(cols), k \in 1..Len(keywords) :
           /\ NameHasKeyword(cols[c], keywords[k])
           /\ \E d \in (c + 1)..Len(cols) : cols[d] = found
           /\ ~NameHasKeyword(found, keywords[k])

\* C7: ratio computation is reached only with both amount roles resolved to a
\* column, never with a role's amounts filled in as 0.0.
C7_NoPhantomZeros ==
    pc \in {"interpret", "done"} => anggaran_col # NoCol /\ realisasi_col # NoCol

\* C7, amended: the run stops for missing amount columns only when neither role
\* was resolved; otherwise it goes on, and a role left without a column has the
\* amount 0.0 in every row that the totals and ratios are computed from.
C7_AbortOnlyWhenBothMissing ==
    /\ pc = "stopped_missing_columns" =>
           anggaran_col = NoCol /\ realisasi_col = NoCol
    /\ pc \in {"aggregate", "ratios", "interpret", "done"} =>
           /\ ~(anggaran_col = NoCol /\ realisasi_col = NoCol)
           /\ anggaran_col = NoCol => \A i \in 1..Len(df) : df[i].Anggaran = 0
           /\ realisasi_col = NoCol => \A i \in 1..Len(df) : df[i].Realisasi = 0

\* The ratios were computed for a sheet whose actual role has no column.
C7_Witness ==
    /\ pc = "done"
    /\ anggaran_col # NoCol /\ realisasi_col = NoCol
    /\ \A i \in 1..Len(df) : df[i].Realisasi = 0

\* The rows of the latest and of the second-latest period.
LatestRows(frame) == OfYear(frame, CurrYear(Years(frame)))
SecondLatestRows(frame) == OfYear(frame, PrevYear(Years(frame)))

\* ratio is (curr - prev) / prev x 100, for a previous sum that is not 0.
Grows(ratio, curr, prev) ==
    prev # 0 => SameRatio(ratio, Pct((curr - prev) * 100, prev))

\* C8: with two or more period tags (and the actual amounts read from the column
\* the keywords name), each growth ratio is (current - previous) /
\* previous x 100 of the family's actual amounts in the latest and in the
\* second-latest period.
C8_GrowthBetweenLatestPeriods ==
    ( /\ pc \in {"interpret", "done"} /\ Cardinality(Years(df)) >= 2
      /\ realisasi_col = find_column_by_keywords(raw.cols, RealisasiKeywords) )
        =>
        /\ Grows(ratios["Pertumbuhan Pendapatan (%)"],
                 SumRealisasi(Revenue(LatestRows(df))),
                 SumRealisasi(Revenue(SecondLatestRows(df))))
        /\ Grows(ratios["Pertumbuhan Belanja (%)"],
                 SumRealisasi(Belanja(LatestRows(df))),
                 SumRealisasi(Belanja(SecondLatestRows(df))))
        /\ Grows(ratios["Pertumbuhan PAD (%)"],
                 SumRealisasi(OfCategory(LatestRows(df), "PAD")),
                 SumRealisasi(OfCategory(SecondLatestRows(df), "PAD")))

\* C9: the run stops for missing amount columns only when the numeric-like scan
\* cannot supply the two columns either.
C9_AbortOnlyAfterFallback ==
    pc = "stopped_missing_columns" => Len(NumericCandidates(raw)) < 2

\* C10: every tag of the enumeration is the class of some label; in particular,
\* when a label with "tidak terduga" has been classified, some such label has
\* the class BELANJA_TIDAK_TERDUGA.
C10_EveryTagReturned ==
    (cpc = "classified" /\ RuleTest(7, lower(name))) =>
        /\ \A i \in 1..Len(CategoryTag) :
               \E l \in Labels : classify_account(l) = CategoryTag[i]
        /\ \E l \in Labels :
               RuleTest(7, lower(l)) /\ classify_account(l) = "BELANJA_TIDAK_TERDUGA"

\* The tags other than BELANJA_TIDAK_TERDUGA are each the class of some label.
OtherTagsReturned ==
    \A i \in 1..Len(CategoryTag) :
        i # 7 => \E l \in Labels : classify_account(l) = CategoryTag[i]

\* Every label with "tidak terduga" has "dak" in it, so passes the TRANSFER test.
TidakTerdugaShadowed ==
    (cpc = "classified" /\ RuleTest(7, lower(name))) =>
        RuleTest(2, lower(name)) /\ kategori \in {"PAD", "TRANSFER"}
=============================================================================
